---- MODULE Spec2Model ----
(***************************************************************************)
(* A model of bland::Store (src/src/lib.rs), a file-backed JSON document   *)
(* store addressed by dot paths, with its storage transforms               *)
(* (src/src/crypto.rs) and error type (src/src/error.rs).                  *)
(*                                                                         *)
(* Texts are sequences of one-character strings.  A byte of a file is a    *)
(* record: [u |-> c] is the UTF-8 byte of the ASCII character c, [r |-> n] *)
(* is the raw byte n, and the other shapes are the symbolic output bytes   *)
(* of the cipher and of the compressor.                                    *)
(***************************************************************************)
EXTENDS Integers, Sequences, FiniteSets

VARIABLES
    store,   \* the fields of the Store value (lib.rs:26-42)
    dirs,    \* the directories that exist on the filesystem
    files,   \* the files that exist: a function from a file path to its bytes
    last,    \* the last call made on the store and what it returned
    threads  \* the calls of set in flight on threads that share the store

vars == <<store, dirs, files, last, threads>>

-----------------------------------------------------------------------------
(* serde_json::Value *)

JNull == [t |-> "null"]
JBool(b) == [t |-> "bool", b |-> b]
JNum(n) == [t |-> "num", n |-> n]
JStr(s) == [t |-> "str", s |-> s]
JArr(a) == [t |-> "arr", a |-> a]
JObj(m) == [t |-> "obj", m |-> m]

EmptyMap == [k \in {} |-> JNull]
EmptyObj == JObj(EmptyMap)

\* a slip: insert keeps the value an existing key already has
MapInsert_KeepOld(m, k, v) == [x \in (DOMAIN m) \cup {k} |-> IF x \in DOMAIN m THEN m[x] ELSE v]

\* Map::insert and Map::remove on the map of an object
MapInsert(m, k, v) == [x \in (DOMAIN m) \cup {k} |-> IF x = k THEN v ELSE m[x]]
MapRemove(m, k) == [x \in (DOMAIN m) \ {k} |-> m[x]]

-----------------------------------------------------------------------------
(* Characters, in ASCII order, for the ordering of the keys of a map *)

Alphabet ==
    << " ", "\"", ",", "-", ".", "0", "1", "2", "3", "4", "5", "6", "7", "8", "9",
       ":", "[", "\\", "]", "a", "b", "c", "d", "e", "f", "h", "l", "n", "r", "s",
       "t", "u", "x", "y", "{", "}" >>

Digits == <<"0", "1", "2", "3", "4", "5", "6", "7", "8", "9">>

DigitSet == {Digits[i] : i \in 1..10}

CharCode(c) == CHOOSE i \in 1..Len(Alphabet) : Alphabet[i] = c

DigitValue(c) == (CHOOSE i \in 1..10 : Digits[i] = c) - 1

RECURSIVE StrLess(_, _)
\* the order of String, byte-wise lexicographic, which BTreeMap iterates in
StrLess(a, b) ==
    IF b = <<>> THEN FALSE
    ELSE IF a = <<>> THEN TRUE
    ELSE IF Head(a) = Head(b) THEN StrLess(Tail(a), Tail(b))
    ELSE CharCode(Head(a)) < CharCode(Head(b))

RECURSIVE SortedKeys(_)
SortedKeys(S) ==
    IF S = {} THEN <<>>
    ELSE LET k == CHOOSE x \in S : \A y \in S \ {x} : StrLess(x, y)
         IN  <<k>> \o SortedKeys(S \ {k})

-----------------------------------------------------------------------------
(* serde_json: Value::to_string (compact form) *)

RECURSIVE NatToString(_)
NatToString(n) ==
    IF n < 10 THEN <<Digits[n + 1]>>
    ELSE NatToString(n \div 10) \o <<Digits[(n % 10) + 1]>>

Quoted(s) == <<"\"">> \o s \o <<"\"">>

RECURSIVE to_string(_)
RECURSIVE JoinElems(_, _)
RECURSIVE JoinMembers(_, _)

JoinElems(a, i) ==
    IF i > Len(a) THEN <<>>
    ELSE (IF i > 1 THEN <<",">> ELSE <<>>) \o to_string(a[i]) \o JoinElems(a, i + 1)

JoinMembers(m, ks) ==
    IF ks = <<>> THEN <<>>
    ELSE Quoted(Head(ks)) \o <<":">> \o to_string(m[Head(ks)])
         \o (IF Len(ks) > 1 THEN <<",">> ELSE <<>>)
         \o JoinMembers(m, Tail(ks))

to_string(v) ==
    CASE v.t = "null" -> <<"n", "u", "l", "l">>
      [] v.t = "bool" -> IF v.b THEN <<"t", "r", "u", "e">>
                         ELSE <<"f", "a", "l", "s", "e">>
      [] v.t = "num"  -> NatToString(v.n)
      [] v.t = "str"  -> Quoted(v.s)
      [] v.t = "arr"  -> <<"[">> \o JoinElems(v.a, 1) \o <<"]">>
      [] v.t = "obj"  -> <<"{">> \o JoinMembers(v.m, SortedKeys(DOMAIN v.m)) \o <<"}">>

-----------------------------------------------------------------------------
(* serde_json::from_str: a recursive-descent parser.  A parse step returns *)
(* [ok, v, i]: whether it succeeded, the value, and the next position.     *)

Whitespace == {" "}

PFail == [ok |-> FALSE, v |-> JNull, i |-> 0]
POk(v, i) == [ok |-> TRUE, v |-> v, i |-> i]

RECURSIVE SkipWs(_, _)
SkipWs(s, i) == IF i <= Len(s) /\ s[i] \in Whitespace THEN SkipWs(s, i + 1) ELSE i

\* whether the text s holds the word w at position i
HasWord(s, i, w) == i + Len(w) - 1 <= Len(s) /\ SubSeq(s, i, i + Len(w) - 1) = w

RECURSIVE ScanString(_, _)
\* the position of the closing quote of a string whose content starts at i, 0 if none
ScanString(s, i) ==
    IF i > Len(s) THEN 0
    ELSE IF s[i] = "\"" THEN i
    ELSE IF s[i] = "\\" THEN 0
    ELSE ScanString(s, i + 1)

\* a string literal whose opening quote is at i
ParseString(s, i) ==
    LET j == ScanString(s, i + 1)
    IN  IF j = 0 THEN PFail ELSE POk(SubSeq(s, i + 1, j - 1), j + 1)

RECURSIVE ScanDigits(_, _)
ScanDigits(s, i) == IF i <= Len(s) /\ s[i] \in DigitSet THEN ScanDigits(s, i + 1) ELSE i

RECURSIVE DigitsValue(_, _)
DigitsValue(d, acc) ==
    IF d = <<>> THEN acc ELSE DigitsValue(Tail(d), acc * 10 + DigitValue(Head(d)))

\* an unsigned integer literal starting at i; a leading zero ends the number
ParseNumber(s, i) ==
    LET j == IF s[i] = "0" THEN i + 1 ELSE ScanDigits(s, i)
    IN  IF j <= Len(s) /\ s[j] \in DigitSet THEN PFail
        ELSE POk(JNum(DigitsValue(SubSeq(s, i, j - 1), 0)), j)

RECURSIVE ParseValue(_, _)
RECURSIVE ParseElems(_, _, _)
RECURSIVE ParseMembers(_, _, _)

\* the elements of an array after "[" or ",": i is at the start of an element
ParseElems(s, i, acc) ==
    LET e == ParseValue(s, i)
        j == SkipWs(s, e.i)
    IN  IF ~e.ok \/ j > Len(s) THEN PFail
        ELSE IF s[j] = "," THEN ParseElems(s, SkipWs(s, j + 1), Append(acc, e.v))
        ELSE IF s[j] = "]" THEN POk(JArr(Append(acc, e.v)), j + 1)
        ELSE PFail

\* the members of an object after "{" or ",": i is at the start of a key
ParseMembers(s, i, acc) ==
    IF i > Len(s) \/ s[i] # "\"" THEN PFail
    ELSE LET k == ParseString(s, i)
             c == SkipWs(s, k.i)
         IN  IF ~k.ok \/ c > Len(s) \/ s[c] # ":" THEN PFail
             ELSE LET e == ParseValue(s, SkipWs(s, c + 1))
                      j == SkipWs(s, e.i)
                      m == MapInsert(acc, k.v, e.v)
                  IN  IF ~e.ok \/ j > Len(s) THEN PFail
                      ELSE IF s[j] = "," THEN ParseMembers(s, SkipWs(s, j + 1), m)
                      ELSE IF s[j] = "}" THEN POk(JObj(m), j + 1)
                      ELSE PFail

ParseValue(s, i) ==
    IF i > Len(s) THEN PFail
    ELSE CASE s[i] = "n" ->
                IF HasWord(s, i, <<"n", "u", "l", "l">>) THEN POk(JNull, i + 4) ELSE PFail
           [] s[i] = "t" ->
                IF HasWord(s, i, <<"t", "r", "u", "e">>) THEN POk(JBool(TRUE), i + 4)
                ELSE PFail
           [] s[i] = "f" ->
                IF HasWord(s, i, <<"f", "a", "l", "s", "e">>) THEN POk(JBool(FALSE), i + 5)
                ELSE PFail
           [] s[i] = "\"" ->
                LET r == ParseString(s, i)
                IN  IF r.ok THEN POk(JStr(r.v), r.i) ELSE PFail
           [] s[i] \in DigitSet -> ParseNumber(s, i)
           [] s[i] = "[" ->
                LET j == SkipWs(s, i + 1)
                IN  IF j <= Len(s) /\ s[j] = "]" THEN POk(JArr(<<>>), j + 1)
                    ELSE ParseElems(s, j, <<>>)
           [] s[i] = "{" ->
                LET j == SkipWs(s, i + 1)
                IN  IF j <= Len(s) /\ s[j] = "}" THEN POk(EmptyObj, j + 1)
                    ELSE ParseMembers(s, j, EmptyMap)
           [] OTHER -> PFail

-----------------------------------------------------------------------------
(* Result, Option and the Error enum (error.rs:10-28) *)

Unit == [t |-> "unit"]
Some(v) == [some |-> TRUE, v |-> v]
None == [some |-> FALSE]
Ok(v) == [k |-> "Ok", v |-> v]
Err(e) == [k |-> "Err", e |-> e]
\* the process aborts inside the call (a Rust panic)
Panic == [k |-> "Panic"]

IsOk(r) == r.k = "Ok"
IsErr(r) == r.k = "Err"

ErrNotFound == "NotFound"
ErrIo == "Io"
ErrSerde == "Serde"
ErrInvalidKeyLength == "InvalidKeyLength"
ErrEncryption == "Encryption"
ErrDecryption == "Decryption"
ErrFromUTF8 == "FromUTF8Error"
\* Error::DotPath(e) for the errors of json_dotpath
ErrBadPathElement == "DotPath(BadPathElement)"
ErrInvalidKey == "DotPath(InvalidKey)"
ErrBadIndex == "DotPath(BadIndex)"

\* the Display text of an error (error.rs:30-48, and json_dotpath's for DotPath)
ErrorText(e) ==
    CASE e = ErrNotFound -> "Store not found"
      [] e = ErrInvalidKeyLength -> "Invalid encryption key length"
      [] e = ErrEncryption -> "Encryption error"
      [] e = ErrDecryption -> "Decryption error"
      [] e = ErrBadPathElement -> "Unexpected value reached while traversing path"
      [] OTHER -> e

-----------------------------------------------------------------------------
(* json_dotpath::DotPaths for serde_json::Value, as called at lib.rs:102,  *)
(* lib.rs:159 and lib.rs:191.  A path is a text; its segments are split at *)
(* unescaped dots.  Of the segments an array understands only the decimal  *)
(* index is modelled.                                                      *)

RECURSIVE path_split_from(_, _, _, _)
path_split_from(path, n, buf, escaping) ==
    IF n > Len(path) THEN [my |-> buf, sub |-> None]
    ELSE IF escaping THEN path_split_from(path, n + 1, Append(buf, path[n]), FALSE)
    ELSE IF path[n] = "\\" THEN path_split_from(path, n + 1, buf, TRUE)
    ELSE IF path[n] = "." THEN [my |-> buf, sub |-> Some(SubSeq(path, n + 1, Len(path)))]
    ELSE path_split_from(path, n + 1, Append(buf, path[n]), FALSE)

\* the first segment of a path and, after a dot, the rest of it
path_split(path) == path_split_from(path, 1, <<>>, FALSE)

\* str::parse::<usize> of a segment
ParseIndex(my) ==
    IF my # <<>> /\ \A i \in 1..Len(my) : my[i] \in DigitSet
    THEN Some(DigitsValue(my, 0)) ELSE None

\* a JSON null found where a value is looked up counts as no value
null_to_none(o) == IF o.some /\ o.v = JNull THEN None ELSE o

MapGet(m, k) == IF k \in DOMAIN m THEN Some(m[k]) ELSE None
VecGet(a, i) == IF i < Len(a) THEN Some(a[i + 1]) ELSE None
VecSetAt(a, i, v) == [a EXCEPT ![i + 1] = v]
VecRemove(a, i) == SubSeq(a, 1, i) \o SubSeq(a, i + 2, Len(a))

RECURSIVE dot_get(_, _)
RECURSIVE MapDotGet(_, _)
RECURSIVE VecDotGet(_, _)

MapDotGet(m, path) ==
    IF path = <<>> THEN Ok(Some(JObj(m)))
    ELSE LET sp == path_split(path)
             child == null_to_none(MapGet(m, sp.my))
         IN  IF sp.my = <<>> THEN Err(ErrInvalidKey)
             ELSE IF ~child.some THEN Ok(None)
             ELSE IF sp.sub.some THEN dot_get(child.v, sp.sub.v)
             ELSE Ok(Some(child.v))

VecDotGet(a, path) ==
    IF path = <<>> THEN Ok(Some(JArr(a)))
    ELSE LET sp == path_split(path)
             ix == ParseIndex(sp.my)
         IN  IF sp.my = <<>> THEN Err(ErrInvalidKey)
             ELSE IF a = <<>> THEN Ok(None)
             ELSE IF ~ix.some THEN Err(ErrInvalidKey)
             ELSE LET child == null_to_none(VecGet(a, ix.v))
                  IN  IF ~child.some THEN Ok(None)
                      ELSE IF sp.sub.some THEN dot_get(child.v, sp.sub.v)
                      ELSE Ok(Some(child.v))

\* dot_get, but finding nothing below a string, a number or a boolean
dot_get_Lenient(v, path) ==
    CASE v.t = "arr" -> VecDotGet(v.a, path)
      [] v.t = "obj" -> MapDotGet(v.m, path)
      [] v.t = "null" -> Ok(None)
      [] OTHER -> IF path = <<>> THEN Ok(Some(v)) ELSE Ok(None)

\* DotPaths::dot_get::<Value>: Ok(Some(v)), Ok(None) or Err(e)
dot_get(v, path) ==
    CASE v.t = "arr" -> VecDotGet(v.a, path)
      [] v.t = "obj" -> MapDotGet(v.m, path)
      [] v.t = "null" -> Ok(None)
      [] OTHER -> IF path = <<>> THEN Ok(Some(v)) ELSE Err(ErrBadPathElement)

\* what a mutating call gives: its result and the value it leaves behind
Mut(res, v) == [res |-> res, v |-> v]

RECURSIVE dot_set(_, _, _)
RECURSIVE MapDotSet(_, _, _)
RECURSIVE VecDotSet(_, _, _)
RECURSIVE new_by_path_root(_, _)

\* the container a path spawns where nothing is stored yet
new_by_path_root(path, value) ==
    IF path = <<>> THEN Mut(Ok(Unit), value)
    ELSE IF path_split(path).my = <<"0">> THEN VecDotSet(<<>>, path, value)
    ELSE MapDotSet(EmptyMap, path, value)

\* MapDotSet, but leaving an object found under the final key in place
MapDotSet_KeepSubtree(m, path, value) ==
    LET sp == path_split(path)
    IN  IF sp.my = <<>> THEN Mut(Err(ErrInvalidKey), JObj(m))
        ELSE IF sp.sub.some
        THEN LET r == IF sp.my \in DOMAIN m THEN dot_set(m[sp.my], sp.sub.v, value)
                      ELSE new_by_path_root(sp.sub.v, value)
             IN  IF IsOk(r.res) THEN Mut(Ok(Unit), JObj(MapInsert(m, sp.my, r.v)))
                 ELSE Mut(r.res, JObj(m))
        ELSE IF sp.my \in DOMAIN m /\ m[sp.my].t = "obj" THEN Mut(Ok(Unit), JObj(m))
        ELSE Mut(Ok(Unit), JObj(MapInsert(m, sp.my, value)))

MapDotSet(m, path, value) ==
    LET sp == path_split(path)
    IN  IF sp.my = <<>> THEN Mut(Err(ErrInvalidKey), JObj(m))
        ELSE IF sp.sub.some
        THEN LET r == IF sp.my \in DOMAIN m THEN dot_set(m[sp.my], sp.sub.v, value)
                      ELSE new_by_path_root(sp.sub.v, value)
             IN  IF IsOk(r.res) THEN Mut(Ok(Unit), JObj(MapInsert(m, sp.my, r.v)))
                 ELSE Mut(r.res, JObj(m))
        ELSE Mut(Ok(Unit), JObj(MapInsert(m, sp.my, value)))

VecDotSet(a, path, value) ==
    LET sp == path_split(path)
        ix == ParseIndex(sp.my)
    IN  IF sp.my = <<>> \/ ~ix.some THEN Mut(Err(ErrInvalidKey), JArr(a))
        ELSE IF ix.v > Len(a) THEN Mut(Err(ErrBadIndex), JArr(a))
        ELSE LET r == IF ~sp.sub.some THEN Mut(Ok(Unit), value)
                      ELSE IF ix.v < Len(a) THEN dot_set(a[ix.v + 1], sp.sub.v, value)
                      ELSE new_by_path_root(sp.sub.v, value)
             IN  IF ~IsOk(r.res) THEN Mut(r.res, JArr(a))
                 ELSE IF ix.v = Len(a) THEN Mut(Ok(Unit), JArr(Append(a, r.v)))
                 ELSE Mut(Ok(Unit), JArr(VecSetAt(a, ix.v, r.v)))

\* dot_set, but a string, a number or a boolean on the way gives way to a
\* new container as a null does
dot_set_Overwrite(v, path, value) ==
    CASE v.t = "arr" -> VecDotSet(v.a, path, value)
      [] v.t = "obj" -> MapDotSet(v.m, path, value)
      [] OTHER -> new_by_path_root(path, value)

\* DotPaths::dot_set: the result and the value after the call
dot_set(v, path, value) ==
    CASE v.t = "arr" -> VecDotSet(v.a, path, value)
      [] v.t = "obj" -> MapDotSet(v.m, path, value)
      [] v.t = "null" -> new_by_path_root(path, value)
      [] OTHER -> IF path = <<>> THEN Mut(Ok(Unit), value)
                  ELSE Mut(Err(ErrBadPathElement), v)

RECURSIVE dot_take(_, _)
RECURSIVE MapDotTake(_, _)
RECURSIVE VecDotTake(_, _)

\* MapDotTake, but failing where the key is missing
MapDotTake_ErrOnMissing(m, path) ==
    LET sp == path_split(path)
        child == null_to_none(MapGet(m, sp.my))
    IN  IF sp.my = <<>> THEN Mut(Err(ErrInvalidKey), JObj(m))
        ELSE IF ~child.some THEN Mut(Err(ErrBadPathElement), JObj(m))
        ELSE IF sp.sub.some
        THEN LET r == dot_take(child.v, sp.sub.v)
             IN  Mut(r.res, JObj(MapInsert(m, sp.my, r.v)))
        ELSE Mut(Ok(child), JObj(MapRemove(m, sp.my)))

MapDotTake(m, path) ==
    LET sp == path_split(path)
        child == null_to_none(MapGet(m, sp.my))
    IN  IF sp.my = <<>> THEN Mut(Err(ErrInvalidKey), JObj(m))
        ELSE IF sp.sub.some
        THEN IF ~child.some THEN Mut(Ok(None), JObj(m))
             ELSE LET r == dot_take(child.v, sp.sub.v)
                  IN  Mut(r.res, JObj(MapInsert(m, sp.my, r.v)))
        ELSE Mut(Ok(child), JObj(MapRemove(m, sp.my)))

VecDotTake(a, path) ==
    LET sp == path_split(path)
        ix == ParseIndex(sp.my)
    IN  IF sp.my = <<>> THEN Mut(Err(ErrInvalidKey), JArr(a))
        ELSE IF a = <<>> THEN Mut(Ok(None), JArr(a))
        ELSE IF ~ix.some THEN Mut(Err(ErrInvalidKey), JArr(a))
        ELSE IF ix.v >= Len(a) THEN Mut(Ok(None), JArr(a))
        ELSE IF sp.sub.some
        THEN LET child == null_to_none(VecGet(a, ix.v))
             IN  IF ~child.some THEN Mut(Ok(None), JArr(a))
                 ELSE LET r == dot_take(child.v, sp.sub.v)
                      IN  Mut(r.res, JArr(VecSetAt(a, ix.v, r.v)))
        ELSE Mut(Ok(null_to_none(VecGet(a, ix.v))), JArr(VecRemove(a, ix.v)))

\* DotPaths::dot_take::<Value>: the value taken, if any, and the value left
dot_take(v, path) ==
    CASE v.t = "arr" -> VecDotTake(v.a, path)
      [] v.t = "obj" -> MapDotTake(v.m, path)
      [] v.t = "null" -> Mut(Ok(None), v)
      [] OTHER -> IF path = <<>> THEN Mut(Ok(Some(v)), JNull)
                  ELSE Mut(Err(ErrBadPathElement), v)

\* Store::parse_json: serde_json::from_str, a whole text as one value
parse_json(text) ==
    LET r == ParseValue(text, SkipWs(text, 1))
    IN  IF r.ok /\ SkipWs(text, r.i) = Len(text) + 1 THEN Ok(r.v) ELSE Err(ErrSerde)

\* serde_json::to_value of the data given to set: data.ok says whether it serializes
to_value(data) == IF data.ok THEN Ok(data.json) ELSE Err(ErrSerde)

-----------------------------------------------------------------------------
(* Bytes *)

\* str::as_bytes of an ASCII text
as_bytes(text) == [i \in 1..Len(text) |-> [u |-> text[i]]]

\* String::from_utf8: the bytes of the cipher and of the compressor are not text
from_utf8(bytes) ==
    IF \A i \in 1..Len(bytes) : DOMAIN bytes[i] = {"u"}
    THEN Ok([i \in 1..Len(bytes) |-> bytes[i].u])
    ELSE Err(ErrFromUTF8)

-----------------------------------------------------------------------------
(* crypto.rs: AES-256-GCM, symbolically.  Sealing a plaintext under a key  *)
(* and a nonce gives one byte per plaintext byte and a 16-byte tag, which  *)
(* binds the key, the nonce and the plaintext; opening succeeds exactly on *)
(* what was sealed under the same key and nonce.                           *)

KeyLen == 32
NonceLen == 12
TagLen == 16

Seal(key, nonce, pt) ==
    [i \in 1..Len(pt) |-> [e |-> pt[i], i |-> i]]
    \o [i \in 1..TagLen |-> [tag |-> i, mac |-> IF i = 1 THEN <<key, nonce, pt>> ELSE <<>>]]

\* Aead::decrypt: the plaintext, or none when the authentication fails
Open(key, nonce, ct) ==
    IF Len(ct) < TagLen THEN None
    ELSE LET n == Len(ct) - TagLen
         IN  IF \A i \in 1..n : "e" \in DOMAIN ct[i]
             THEN LET pt == [i \in 1..n |-> ct[i].e]
                  IN  IF ct = Seal(key, nonce, pt) THEN Some(pt) ELSE None
             ELSE None

\* encrypt_data; nonce_array is what rand::random gave.  Sealing fails only
\* on a plaintext beyond the cipher's length limit, which no text here reaches.
encrypt_data(data, key, nonce_array) ==
    Ok(nonce_array \o Seal(key, nonce_array, as_bytes(data)))

\* decrypt_data, but passing on the error of String::from_utf8 as it is
decrypt_data_Utf8Error(data, key) ==
    IF Len(data) < NonceLen THEN Panic
    ELSE LET nonce_slice == SubSeq(data, 1, NonceLen)
             data_slice == SubSeq(data, NonceLen + 1, Len(data))
             opened == Open(key, nonce_slice, data_slice)
             text == from_utf8(opened.v)
         IN  IF ~opened.some THEN Err(ErrDecryption)
             ELSE text

\* decrypt_data: split_at(12) panics on fewer than 12 bytes
decrypt_data(data, key) ==
    IF Len(data) < NonceLen THEN Panic
    ELSE LET nonce_slice == SubSeq(data, 1, NonceLen)
             data_slice == SubSeq(data, NonceLen + 1, Len(data))
             opened == Open(key, nonce_slice, data_slice)
             text == from_utf8(opened.v)
         IN  IF ~opened.some THEN Err(ErrDecryption)
             ELSE IF IsOk(text) THEN Ok(text.v)
             ELSE Err(ErrDecryption)

-----------------------------------------------------------------------------
(* flate2: gzip, symbolically: the 10-byte header, one byte per input byte,*)
(* the CRC of the input (4 bytes) and its length (4 bytes).                *)

GzHeader ==
    << [r |-> 31], [r |-> 139], [r |-> 8], [r |-> 0], [r |-> 0],
       [r |-> 0], [r |-> 0], [r |-> 0], [r |-> 0], [r |-> 255] >>

GzTrailer(bytes) ==
    [i \in 1..4 |-> [crc |-> i, of |-> bytes]]
    \o << [r |-> Len(bytes) % 256], [r |-> (Len(bytes) \div 256) % 256],
          [r |-> 0], [r |-> 0] >>

\* GzEncoder::write_all and finish
GzEncode(bytes) ==
    GzHeader \o [i \in 1..Len(bytes) |-> [z |-> bytes[i]]] \o GzTrailer(bytes)

\* GzDecode, but passing on bytes that are no gzip stream as they are
GzDecode_Lenient(bytes) ==
    LET n == Len(bytes) - Len(GzHeader) - 8
    IN  IF n < 0 \/ SubSeq(bytes, 1, Len(GzHeader)) # GzHeader THEN from_utf8(bytes)
        ELSE IF \E i \in 1..n : "z" \notin DOMAIN bytes[Len(GzHeader) + i] THEN Err(ErrIo)
        ELSE LET body == [i \in 1..n |-> bytes[Len(GzHeader) + i].z]
                 text == from_utf8(body)
             IN  IF bytes # GzEncode(body) \/ ~IsOk(text) THEN Err(ErrIo) ELSE text

\* GzDecoder::read_to_string: an I/O error on anything but a gzip stream of text
GzDecode(bytes) ==
    LET n == Len(bytes) - Len(GzHeader) - 8
    IN  IF n < 0 \/ SubSeq(bytes, 1, Len(GzHeader)) # GzHeader THEN Err(ErrIo)
        ELSE IF \E i \in 1..n : "z" \notin DOMAIN bytes[Len(GzHeader) + i] THEN Err(ErrIo)
        ELSE LET body == [i \in 1..n |-> bytes[Len(GzHeader) + i].z]
                 text == from_utf8(body)
             IN  IF bytes # GzEncode(body) \/ ~IsOk(text) THEN Err(ErrIo) ELSE text

-----------------------------------------------------------------------------
(* The filesystem: fs = [dirs, files].  A path is a sequence of names.     *)

Parent(p) == SubSeq(p, 1, Len(p) - 1)
IsUnder(p, d) == Len(p) >= Len(d) /\ SubSeq(p, 1, Len(d)) = d

FsRes(res, fs) == [res |-> res, fs |-> fs]

\* Path::exists
exists(fs, p) == p \in fs.dirs \/ p \in DOMAIN fs.files

\* fs::create_dir: fails when the directory exists or its parent does not
create_dir(fs, d) ==
    IF exists(fs, d) \/ Parent(d) \notin fs.dirs THEN FsRes(Err(ErrIo), fs)
    ELSE FsRes(Ok(Unit), [fs EXCEPT !.dirs = @ \cup {d}])

\* fs::write, and File::create with no bytes: creates or truncates the file
fs_write(fs, p, bytes) ==
    IF Parent(p) \notin fs.dirs \/ p \in fs.dirs THEN FsRes(Err(ErrIo), fs)
    ELSE FsRes(Ok(Unit),
               [fs EXCEPT !.files = [q \in (DOMAIN @) \cup {p} |->
                                        IF q = p THEN bytes ELSE @[q]]])

\* fs::read
fs_read(fs, p) == IF p \in DOMAIN fs.files THEN Ok(fs.files[p]) ELSE Err(ErrIo)

\* fs::remove_dir_all
remove_dir_all(fs, d) ==
    IF d \notin fs.dirs THEN FsRes(Err(ErrIo), fs)
    ELSE FsRes(Ok(Unit),
               [dirs |-> {x \in fs.dirs : ~IsUnder(x, d)},
                files |-> [q \in {x \in DOMAIN fs.files : ~IsUnder(x, d)} |->
                              fs.files[q]]])

-----------------------------------------------------------------------------
(* Store (lib.rs:26-352) *)

\* the configuration directory dirs::config_dir() gave
RootPath == <<"cfg">>

\* Store::new
new(project_name) ==
    [path |-> RootPath,
     project_name |-> project_name,
     config_name |-> "config",
     file_extension |-> "json",
     project_suffix |-> "rs",
     encryption_key |-> None,
     compressed |-> FALSE]

get_store_dir_path(st) ==
    Append(st.path, st.project_name \o "-" \o st.project_suffix)

\* PathBuf::set_extension on a name without a dot
get_store_path(st) ==
    Append(get_store_dir_path(st), st.project_name \o "." \o st.file_extension)

\* store_exists, but asking for the directory of the store
store_exists_Dir(st, fs) == exists(fs, get_store_dir_path(st))

store_dir_exists(st, fs) == exists(fs, get_store_dir_path(st))
store_exists(st, fs) == exists(fs, get_store_path(st))
get_compressed(st) == st.compressed

make_store_path(st, fs) == create_dir(fs, get_store_dir_path(st))

\* wrap, but never compressing
wrap_NoCompression(st, data, nonce) ==
    IF st.encryption_key.some THEN encrypt_data(data, st.encryption_key.v, nonce)
    ELSE Ok(as_bytes(data))

\* what write_store hands to fs::write; nonce is the cipher's random nonce
wrap(st, data, nonce) ==
    IF st.encryption_key.some THEN encrypt_data(data, st.encryption_key.v, nonce)
    ELSE IF get_compressed(st) THEN Ok(GzEncode(as_bytes(data)))
    ELSE Ok(as_bytes(data))

\* write_store, but stopping one byte short
write_store_Partial(st, fs, data, nonce) ==
    LET w == wrap(st, data, nonce)
    IN  IF IsOk(w) THEN fs_write(fs, get_store_path(st), SubSeq(w.v, 1, Len(w.v) - 1))
        ELSE FsRes(w, fs)

write_store(st, fs, data, nonce) ==
    LET w == wrap(st, data, nonce)
    IN  IF IsOk(w) THEN fs_write(fs, get_store_path(st), w.v) ELSE FsRes(w, fs)

\* unwrap, but asking for the compression flag before the key
unwrap_CompressionFirst(st, store_data) ==
    IF st.compressed THEN GzDecode(store_data)
    ELSE IF st.encryption_key.some THEN decrypt_data(store_data, st.encryption_key.v)
    ELSE from_utf8(store_data)

\* what get_store_as_parsed_json makes of the bytes it read
unwrap(st, store_data) ==
    IF st.encryption_key.some THEN decrypt_data(store_data, st.encryption_key.v)
    ELSE IF get_compressed(st) THEN GzDecode(store_data)
    ELSE from_utf8(store_data)

get_store_as_parsed_json(st, fs) ==
    IF ~store_exists(st, fs) THEN Err(ErrNotFound)
    ELSE LET store_data == fs_read(fs, get_store_path(st))
         IN  IF ~IsOk(store_data) THEN store_data
             ELSE LET data == unwrap(st, store_data.v)
                  IN  IF IsOk(data) THEN parse_json(data.v) ELSE data

\* init_store, but leaving the file it created empty and the one it found alone
init_store_NoWrite(st, fs, nonce) ==
    LET made == IF ~store_dir_exists(st, fs) THEN make_store_path(st, fs)
                ELSE FsRes(Ok(Unit), fs)
    IN  IF ~IsOk(made.res) THEN made
        ELSE IF ~store_exists(st, made.fs)
        THEN fs_write(made.fs, get_store_path(st), <<>>)
        ELSE FsRes(Ok(Unit), made.fs)

\* init_store, but writing the empty document only into a file it created
init_store_KeepExisting(st, fs, nonce) ==
    LET made == IF ~store_dir_exists(st, fs) THEN make_store_path(st, fs)
                ELSE FsRes(Ok(Unit), fs)
    IN  IF ~IsOk(made.res) THEN made
        ELSE IF ~store_exists(st, made.fs)
        THEN write_store(st, made.fs, to_string(EmptyObj), nonce)
        ELSE FsRes(Ok(Unit), made.fs)

init_store(st, fs, nonce) ==
    LET made == IF ~store_dir_exists(st, fs) THEN make_store_path(st, fs)
                ELSE FsRes(Ok(Unit), fs)
        created == IF ~store_exists(st, made.fs)
                   THEN fs_write(made.fs, get_store_path(st), <<>>)
                   ELSE FsRes(Ok(Unit), made.fs)
    IN  IF ~IsOk(made.res) THEN made
        ELSE IF ~IsOk(created.res) THEN created
        ELSE write_store(st, created.fs, to_string(EmptyObj), nonce)

\* get, but answering from the document the instance had when it was made
get_Stale(st, fs, path) ==
    IF ~store_exists(st, fs) THEN Err(ErrNotFound)
    ELSE dot_get(EmptyObj, path)

get(st, fs, path) ==
    IF ~store_exists(st, fs) THEN Err(ErrNotFound)
    ELSE LET parsed_json == get_store_as_parsed_json(st, fs)
         IN  IF IsOk(parsed_json) THEN dot_get(parsed_json.v, path) ELSE parsed_json

\* set, but failing like get and delete where there is no store
set_NoInit(st, fs, path, data, nonce1, nonce2) ==
    LET json_data == to_value(data)
        parsed_json == get_store_as_parsed_json(st, fs)
        changed == dot_set(parsed_json.v, path, json_data.v)
    IN  IF ~IsOk(json_data) THEN FsRes(json_data, fs)
        ELSE IF ~IsOk(parsed_json) THEN FsRes(parsed_json, fs)
        ELSE IF ~IsOk(changed.res) THEN FsRes(changed.res, fs)
        ELSE write_store(st, fs, to_string(changed.v), nonce2)

\* set, but putting the value into an empty document instead of the one read
set_Fresh(st, fs, path, data, nonce1, nonce2) ==
    LET json_data == to_value(data)
        inited == IF ~store_exists(st, fs) THEN init_store(st, fs, nonce1)
                  ELSE FsRes(Ok(Unit), fs)
        parsed_json == get_store_as_parsed_json(st, inited.fs)
        changed == dot_set(EmptyObj, path, json_data.v)
    IN  IF ~IsOk(json_data) THEN FsRes(json_data, fs)
        ELSE IF ~IsOk(inited.res) THEN inited
        ELSE IF ~IsOk(parsed_json) THEN FsRes(parsed_json, inited.fs)
        ELSE IF ~IsOk(changed.res) THEN FsRes(changed.res, inited.fs)
        ELSE write_store(st, inited.fs, to_string(changed.v), nonce2)

\* set, but creating the store before it serializes the value
set_InitFirst(st, fs, path, data, nonce1, nonce2) ==
    LET json_data == to_value(data)
        inited == IF ~store_exists(st, fs) THEN init_store(st, fs, nonce1)
                  ELSE FsRes(Ok(Unit), fs)
        parsed_json == get_store_as_parsed_json(st, inited.fs)
        changed == dot_set(parsed_json.v, path, json_data.v)
    IN  IF ~IsOk(inited.res) THEN inited
        ELSE IF ~IsOk(json_data) THEN FsRes(json_data, inited.fs)
        ELSE IF ~IsOk(parsed_json) THEN FsRes(parsed_json, inited.fs)
        ELSE IF ~IsOk(changed.res) THEN FsRes(changed.res, inited.fs)
        ELSE write_store(st, inited.fs, to_string(changed.v), nonce2)

\* nonce1 is drawn by the write of init_store, nonce2 by the final write
set(st, fs, path, data, nonce1, nonce2) ==
    LET json_data == to_value(data)
        inited == IF ~store_exists(st, fs) THEN init_store(st, fs, nonce1)
                  ELSE FsRes(Ok(Unit), fs)
        parsed_json == get_store_as_parsed_json(st, inited.fs)
        changed == dot_set(parsed_json.v, path, json_data.v)
    IN  IF ~IsOk(json_data) THEN FsRes(json_data, fs)
        ELSE IF ~IsOk(inited.res) THEN inited
        ELSE IF ~IsOk(parsed_json) THEN FsRes(parsed_json, inited.fs)
        ELSE IF ~IsOk(changed.res) THEN FsRes(changed.res, inited.fs)
        ELSE write_store(st, inited.fs, to_string(changed.v), nonce2)

\* get, but making the directory of the store when it is missing
get_fs_MakeDir(st, fs, path) ==
    FsRes(get(st, fs, path), create_dir(fs, get_store_dir_path(st)).fs)

\* get with the filesystem it leaves: store_exists and fs::read, the only
\* calls get makes on the filesystem, change nothing
get_fs(st, fs, path) == FsRes(get(st, fs, path), fs)

\* delete, but without writing the document back
delete_NoWrite(st, fs, path, nonce) ==
    IF ~store_exists(st, fs) THEN FsRes(Err(ErrNotFound), fs)
    ELSE LET parsed_json == get_store_as_parsed_json(st, fs)
             taken == dot_take(parsed_json.v, path)
         IN  IF ~IsOk(parsed_json) THEN FsRes(parsed_json, fs)
             ELSE FsRes(taken.res, fs)

delete(st, fs, path, nonce) ==
    IF ~store_exists(st, fs) THEN FsRes(Err(ErrNotFound), fs)
    ELSE LET parsed_json == get_store_as_parsed_json(st, fs)
             taken == dot_take(parsed_json.v, path)
             written == write_store(st, fs, to_string(taken.v), nonce)
         IN  IF ~IsOk(parsed_json) THEN FsRes(parsed_json, fs)
             ELSE IF ~IsOk(taken.res) THEN FsRes(taken.res, fs)
             ELSE IF ~IsOk(written.res) THEN written
             ELSE FsRes(taken.res, written.fs)

\* delete_store, but removing the files and leaving the directory
delete_store_FilesOnly(st, fs) ==
    IF get_store_dir_path(st) \notin fs.dirs THEN FsRes(Err(ErrIo), fs)
    ELSE FsRes(Ok(Unit),
               [dirs |-> fs.dirs,
                files |-> [q \in {x \in DOMAIN fs.files :
                                     ~IsUnder(x, get_store_dir_path(st))} |-> fs.files[q]]])

delete_store(st, fs) == remove_dir_all(fs, get_store_dir_path(st))

\* set_encryption_key, but refusing a key that needs no padding
set_encryption_key_Strict(st, key) ==
    LET final_bytes == [i \in 1..KeyLen |-> IF i <= Len(key) THEN key[i] ELSE 0]
    IN  IF Len(key) >= KeyLen THEN [res |-> Err(ErrInvalidKeyLength), st |-> st]
        ELSE [res |-> Ok(Unit), st |-> [st EXCEPT !.encryption_key = Some(final_bytes)]]

\* set_encryption_key, but dropping the configured key when it refuses one
set_encryption_key_ClearOnError(st, key) ==
    LET final_bytes == [i \in 1..KeyLen |-> IF i <= Len(key) THEN key[i] ELSE 0]
    IN  IF Len(key) > KeyLen
        THEN [res |-> Err(ErrInvalidKeyLength), st |-> [st EXCEPT !.encryption_key = None]]
        ELSE [res |-> Ok(Unit), st |-> [st EXCEPT !.encryption_key = Some(final_bytes)]]

\* set_encryption_key: key is the bytes of the string given
set_encryption_key(st, key) ==
    LET final_bytes == [i \in 1..KeyLen |-> IF i <= Len(key) THEN key[i] ELSE 0]
    IN  IF Len(key) > KeyLen THEN [res |-> Err(ErrInvalidKeyLength), st |-> st]
        ELSE [res |-> Ok(Unit), st |-> [st EXCEPT !.encryption_key = Some(final_bytes)]]

set_compressed(st, compressed) == [st EXCEPT !.compressed = compressed]

-----------------------------------------------------------------------------
(* The inputs of the calls *)

\* the longest path given has MaxDepth segments
MaxDepth == 2
\* how many values rand::random can give for the nonce
NumNonces == 1

KeyChain == <<"a", "b", "d", "e", "f">>

RECURSIVE NestedPath(_)
\* "a", "a.b", "a.b.d", ...
NestedPath(n) ==
    IF n = 1 THEN <<KeyChain[1]>> ELSE NestedPath(n - 1) \o <<".", KeyChain[n]>>

NestedPaths == {NestedPath(n) : n \in 1..MaxDepth}
SiblingPath == <<"c">>
Paths == NestedPaths \cup {SiblingPath}

\* the scalars, stored under the first key
Scalars == {JNull, JBool(TRUE), JNum(42), JStr(<<"h">>)}
\* those stored along the deeper paths
DeepScalars == {JNull, JNum(42)}
\* what is stored beside them: a string and an array (lib.rs:371)
SiblingValues == {JStr(<<"x", "y">>), JArr(<<JNum(4), JNum(2)>>)}
Values == Scalars \cup SiblingValues

Data(v) == [ok |-> TRUE, json |-> v]
\* a value serde_json cannot represent, such as a map with keys that are no strings
Unserializable == [ok |-> FALSE, json |-> JNull]
NoData == [ok |-> FALSE, json |-> JNull]

\* the path and the data of the calls of set
SetInputs ==
    {<<NestedPath(1), Data(v)>> : v \in Scalars}
    \cup {<<NestedPath(n), Data(v)>> : n \in 2..MaxDepth, v \in DeepScalars}
    \cup {<<SiblingPath, Data(v)>> : v \in SiblingValues}
    \cup {<<NestedPath(1), Unserializable>>}

Nonces == {[i \in 1..NonceLen |-> [r |-> b]] : b \in 1..NumNonces}
NoNonce == <<>>
\* rand::random is called only when there is a key to encrypt under
NoncesFor(st) == IF st.encryption_key.some THEN Nonces ELSE {NoNonce}
\* and set writes twice only when it has to create the store first
InitNoncesFor(st, fs) == IF store_exists(st, fs) THEN {NoNonce} ELSE NoncesFor(st)

\* the longest key string given
MaxKeyStrLen == 33

\* "test_key" (lib.rs:419)
TestKey == <<116, 101, 115, 116, 95, 107, 101, 121>>
\* the key strings: "", "t", "te", ..., "test_keytest_key..."
KeyString(n) == [i \in 1..n |-> TestKey[((i - 1) % Len(TestKey)) + 1]]
LongKey == KeyString(MaxKeyStrLen)
KeyStrings == {TestKey, LongKey}
AllKeyStrings == {KeyString(n) : n \in 0..MaxKeyStrLen}

-----------------------------------------------------------------------------
(* The calls *)

Fs == [dirs |-> dirs, files |-> files]

\* a call and its result; path holds the text given (a path, or a key string)
Call(op, path, data, res) == [op |-> op, path |-> path, data |-> data, res |-> res]

\* the threads that share the store behind a reference
Threads == {1, 2}

\* a thread that is in no call: pc is its position in set, json_data and
\* parsed_json are the locals of set, text is the data given to write_store and
\* bytes what write_store hands to fs::write
IdleThread ==
    [pc |-> "idle", path |-> <<>>, data |-> NoData, json_data |-> JNull,
     parsed_json |-> JNull, text |-> <<>>, bytes |-> <<>>, res |-> Ok(Unit)]

Init ==
    /\ store = new("my-app")
    /\ dirs \in {{RootPath}, {RootPath, get_store_dir_path(new("my-app"))}}
    /\ files = [q \in {} |-> <<>>]
    /\ last = Call("new", <<>>, NoData, Ok(Unit))
    /\ threads = [t \in Threads |-> IdleThread]

Get(path) ==
    LET r == get_fs(store, Fs, path)
    IN  /\ dirs' = r.fs.dirs
        /\ files' = r.fs.files
        /\ last' = Call("get", path, NoData, r.res)
        /\ UNCHANGED <<store, threads>>

Set(path, data, nonce1, nonce2) ==
    LET r == set(store, Fs, path, data, nonce1, nonce2)
    IN  /\ dirs' = r.fs.dirs
        /\ files' = r.fs.files
        /\ last' = Call("set", path, data, r.res)
        /\ UNCHANGED <<store, threads>>

Delete(path, nonce) ==
    LET r == delete(store, Fs, path, nonce)
    IN  /\ dirs' = r.fs.dirs
        /\ files' = r.fs.files
        /\ last' = Call("delete", path, NoData, r.res)
        /\ UNCHANGED <<store, threads>>

InitStore(nonce) ==
    LET r == init_store(store, Fs, nonce)
    IN  /\ dirs' = r.fs.dirs
        /\ files' = r.fs.files
        /\ last' = Call("init_store", <<>>, NoData, r.res)
        /\ UNCHANGED <<store, threads>>

DeleteStore ==
    LET r == delete_store(store, Fs)
    IN  /\ dirs' = r.fs.dirs
        /\ files' = r.fs.files
        /\ last' = Call("delete_store", <<>>, NoData, r.res)
        /\ UNCHANGED <<store, threads>>

SetEncryptionKey(key) ==
    LET r == set_encryption_key(store, key)
    IN  /\ store' = r.st
        /\ last' = Call("set_encryption_key", key, NoData, r.res)
        /\ UNCHANGED <<dirs, files, threads>>

SetCompressed(compressed) ==
    /\ store' = set_compressed(store, compressed)
    /\ last' = Call("set_compressed", <<>>, Data(JBool(compressed)), Ok(Unit))
    /\ UNCHANGED <<dirs, files, threads>>

Next ==
    \/ \E path \in Paths : Get(path)
    \/ \E input \in SetInputs :
           \E nonce1 \in InitNoncesFor(store, Fs), nonce2 \in NoncesFor(store) :
               Set(input[1], input[2], nonce1, nonce2)
    \/ \E path \in Paths : \E nonce \in NoncesFor(store) : Delete(path, nonce)
    \/ \E nonce \in NoncesFor(store) : InitStore(nonce)
    \/ DeleteStore
    \/ \E key \in KeyStrings : SetEncryptionKey(key)
    \/ \E compressed \in BOOLEAN : SetCompressed(compressed)

Spec == Init /\ [][Next]_vars

\* The configuration calls alone, over key strings of every length
NextKey ==
    \/ \E key \in AllKeyStrings : SetEncryptionKey(key)
    \/ \E compressed \in BOOLEAN : SetCompressed(compressed)

SpecKey == Init /\ [][NextKey]_vars

-----------------------------------------------------------------------------
(* What the properties below speak of *)

\* the document the store reads under its configuration, and after a step
Doc == get_store_as_parsed_json(store, Fs)
FsNext == [dirs |-> dirs', files |-> files']
DocNext == get_store_as_parsed_json(store', FsNext)

RECURSIVE Segments(_)
\* the keys of a path whose segments hold no escape
Segments(path) ==
    IF \A i \in 1..Len(path) : path[i] # "." THEN <<path>>
    ELSE LET n == CHOOSE i \in 1..Len(path) :
                      path[i] = "." /\ \A j \in 1..(i - 1) : path[j] # "."
         IN  <<SubSeq(path, 1, n - 1)>> \o Segments(SubSeq(path, n + 1, Len(path)))

RECURSIVE StoredAt(_, _)
\* the value stored in v under the keys segs, a null being a value like any other
StoredAt(v, segs) ==
    IF segs = <<>> THEN Some(v)
    ELSE IF v.t = "obj" /\ Head(segs) \in DOMAIN v.m THEN StoredAt(v.m[Head(segs)], Tail(segs))
    ELSE None

RECURSIVE Nested(_, _)
\* the value v wrapped in one object per key: Nested(<<"a", "b">>, v) is {"a":{"b":v}}
Nested(segs, v) ==
    IF segs = <<>> THEN v
    ELSE JObj([k \in {Head(segs)} |-> Nested(Tail(segs), v)])

RECURSIVE Without(_, _)
\* the object v without the entry under the keys segs
Without(v, segs) ==
    IF Len(segs) = 1 THEN JObj([k \in (DOMAIN v.m) \ {Head(segs)} |-> v.m[k]])
    ELSE JObj([k \in DOMAIN v.m |->
                  IF k = Head(segs) THEN Without(v.m[k], Tail(segs)) ELSE v.m[k]])

\* path names an entry directly below parent: parent, a dot, and one key
IsChildPath(path, parent) ==
    /\ Len(path) > Len(parent) + 1
    /\ SubSeq(path, 1, Len(parent) + 1) = parent \o <<".">>
    /\ \A i \in (Len(parent) + 2)..Len(path) : path[i] # "."

-----------------------------------------------------------------------------
(* C1 *)

\* C1 as stated: whenever set(p, v) returned Ok, a get(p) made next under the
\* same configuration returns Ok(Some(v')) with v' the JSON representation of v.
C1_RoundTripAnyValue ==
    (last.op = "set" /\ IsOk(last.res))
        => get(store, Fs, last.path) = Ok(Some(last.data.json))

\* C1, amended: whenever set(p, v) returned Ok, a get(p) made next under the same
\* configuration returns Ok(Some(v')) with v' the JSON representation of v when
\* that representation is not null, and Ok(None) when it is null.
C1_RoundTrip ==
    (last.op = "set" /\ IsOk(last.res))
        => get(store, Fs, last.path) =
               IF last.data.json = JNull THEN Ok(None) ELSE Ok(Some(last.data.json))

\* an array was set at "c" into an encrypted store, and get reads it back
C1_Witness ==
    /\ last.op = "set" /\ IsOk(last.res)
    /\ last.path = SiblingPath
    /\ last.data.json = JArr(<<JNum(4), JNum(2)>>)
    /\ store.encryption_key.some
    /\ get(store, Fs, SiblingPath) = Ok(Some(JArr(<<JNum(4), JNum(2)>>)))

-----------------------------------------------------------------------------
(* C2 *)

\* the entry under parent, when the document can be read and holds one
EntryAt(parent) ==
    IF IsOk(Doc) THEN StoredAt(Doc.v, Segments(parent)) ELSE None

\* a call of set(parent.y, w), w serializable, is being made
SetsChildOf(parent) ==
    last'.op = "set" /\ last'.data.ok /\ IsChildPath(last'.path, parent)

\* the call failed on the traversal and left the files and get(parent) alone
RejectedBelow(parent) ==
    /\ last'.res = Err(ErrBadPathElement)
    /\ ErrorText(last'.res.e) = "Unexpected value reached while traversing path"
    /\ FsNext = Fs
    /\ DocNext = Doc
    /\ get(store', FsNext, parent) = get(store, Fs, parent)

\* C2 as stated: if the value stored at x is a scalar (a string, a number, a
\* boolean or null), set("x.y", w) fails with the path-traversal error and the
\* stored document is unchanged, get("x") still returning the scalar.
C2_LeafCollisionAnyScalar ==
    [][\A parent \in Paths :
           (/\ SetsChildOf(parent)
            /\ EntryAt(parent).some
            /\ EntryAt(parent).v.t \in {"str", "num", "bool", "null"})
               => (/\ RejectedBelow(parent)
                   /\ get(store', FsNext, parent) = Ok(EntryAt(parent)))]_vars

\* C2, amended: if the value stored at x is a string, a number or a boolean,
\* set("x.y", w) fails with the path-traversal error ("Unexpected value reached
\* while traversing path") and the stored document is unchanged, get("x") still
\* returning the scalar; if it is null, the call succeeds and stores an object
\* holding w under y at x.
C2_LeafCollision ==
    [][\A parent \in Paths :
           /\ (/\ SetsChildOf(parent)
               /\ EntryAt(parent).some
               /\ EntryAt(parent).v.t \in {"str", "num", "bool"})
                  => (/\ RejectedBelow(parent)
                      /\ get(store', FsNext, parent) = Ok(EntryAt(parent)))
           /\ (/\ SetsChildOf(parent)
               /\ EntryAt(parent) = Some(JNull))
                  => (/\ IsOk(last'.res)
                      /\ get(store', FsNext, last'.path) =
                             IF last'.data.json = JNull THEN Ok(None)
                             ELSE Ok(Some(last'.data.json))
                      /\ StoredAt(DocNext.v, Segments(parent)).v.t = "obj")]_vars

\* set("a.b", w) has just been rejected on the string stored at "a" in a
\* compressed store, and get("a") still reads the string
C2_Witness ==
    /\ last.op = "set" /\ last.path = NestedPath(2) /\ last.data.ok
    /\ last.res = Err(ErrBadPathElement)
    /\ store.compressed /\ ~store.encryption_key.some
    /\ get(store, Fs, NestedPath(1)) = Ok(Some(JStr(<<"h">>)))

-----------------------------------------------------------------------------
(* C3 *)

\* there is no backing file
FileAbsent == get_store_path(store) \notin DOMAIN files

\* C3: get(path) and delete(path) fail with NotFound whenever the backing file
\* does not exist, whatever the path and the configuration; nothing is created.
C3_NotFoundWithoutFile ==
    [][(FileAbsent /\ last'.op \in {"get", "delete"})
           => (/\ last'.res = Err(ErrNotFound)
               /\ ErrorText(last'.res.e) = "Store not found"
               /\ FsNext = Fs)]_vars

\* delete has just failed with NotFound on a store with a key and the
\* compression flag set, whose directory is gone
C3_Witness ==
    /\ last.op = "delete" /\ last.res = Err(ErrNotFound)
    /\ store.encryption_key.some /\ store.compressed
    /\ FileAbsent /\ get_store_dir_path(store) \notin dirs

-----------------------------------------------------------------------------
(* C4 *)

\* C4: when the backing file is absent, with or without its directory, a
\* set(p, v) of a serializable v returns Ok; afterwards the directory and the
\* file exist, the document is {} with v at p, and no get and no delete fails
\* with NotFound.
C4_SetCreatesStore ==
    [][(FileAbsent /\ last'.op = "set" /\ last'.data.ok)
           => (/\ IsOk(last'.res)
               /\ get_store_dir_path(store') \in dirs'
               /\ get_store_path(store') \in DOMAIN files'
               /\ store_dir_exists(store', FsNext) /\ store_exists(store', FsNext)
               /\ DocNext = Ok(Nested(Segments(last'.path), last'.data.json))
               /\ \A p \in Paths :
                      /\ get(store', FsNext, p) # Err(ErrNotFound)
                      /\ \A nonce \in NoncesFor(store') :
                             delete(store', FsNext, p, nonce).res # Err(ErrNotFound))]_vars

\* set("a.b", 42) has just returned Ok on an encrypted store, whose document
\* is {} with 42 at "a.b"
C4_Witness ==
    /\ last.op = "set" /\ IsOk(last.res) /\ last.path = NestedPath(2)
    /\ store.encryption_key.some
    /\ Doc = Ok(Nested(Segments(NestedPath(2)), JNum(42)))

-----------------------------------------------------------------------------
(* C5 *)

-----------------------------------------------------------------------------
(* C6 *)

\* paths asked of an empty store: those of the calls, a deeper one, an index,
\* an index below a key, and a key with an escaped dot
ProbePaths ==
    Paths \cup {NestedPath(MaxDepth + 1), <<"0">>, <<"a", ".", "0">>,
                <<"a", "\\", ".", "b">>, <<"z", "z">>}

\* C6: on a freshly initialized store (document {}), get(p) returns Ok(None)
\* for every path p of non-empty segments, never an error.
C6_FreshStoreReadsNone ==
    (last.op = "init_store" /\ IsOk(last.res))
        => (/\ Doc = Ok(EmptyObj)
            /\ \A p \in ProbePaths : get(store, Fs, p) = Ok(None))

\* init_store has just made the store of a compressing configuration: the file
\* holds the compressed text {} and get("a.b") gives Ok(None)
C6_Witness ==
    /\ last.op = "init_store" /\ IsOk(last.res)
    /\ store.compressed /\ ~store.encryption_key.some
    /\ files[get_store_path(store)] = GzEncode(as_bytes(<<"{", "}">>))
    /\ get(store, Fs, NestedPath(2)) = Ok(None)

-----------------------------------------------------------------------------
(* C7 *)

\* C7: from any state (file absent, or present with any contents), init_store
\* returns Ok and leaves the persisted document {}, so that get of every path
\* returns Ok(None); applied right after itself it changes neither the
\* directories, nor which files exist, nor the document (nor, without a key,
\* a byte of the file).
C7_InitIdempotent ==
    [][last'.op = "init_store"
           => (/\ IsOk(last'.res)
               /\ DocNext = Ok(EmptyObj)
               /\ \A p \in Paths : get(store', FsNext, p) = Ok(None)
               /\ last.op = "init_store"
                      => (/\ dirs' = dirs
                          /\ DOMAIN files' = DOMAIN files
                          /\ DocNext = Doc
                          /\ ~store.encryption_key.some => files' = files))]_vars

\* init_store has just run on a store whose file is present and holds {}
C7_Witness ==
    /\ last.op = "init_store" /\ IsOk(last.res)
    /\ store_exists(store, Fs) /\ store_dir_exists(store, Fs)
    /\ store.encryption_key.some
    /\ Doc = Ok(EmptyObj)
    /\ \A p \in Paths : get(store, Fs, p) = Ok(None)

-----------------------------------------------------------------------------
(* C8 *)

\* document texts: no text, the empty document, a document with entries, and
\* a text that is no JSON
Texts ==
    {<<>>, to_string(EmptyObj),
     to_string(Nested(Segments(NestedPath(2)), JStr(<<"h">>))),
     <<"n", "o">>}

\* the directory of the store is there, so that write_store can write
DirPresent == [dirs |-> dirs \cup {get_store_dir_path(store)}, files |-> files]

\* what the store reads back from fs: the decoding get_store_as_parsed_json does
ReadBack(st, fs) ==
    LET store_data == fs_read(fs, get_store_path(st))
    IN  IF IsOk(store_data) THEN unwrap(st, store_data.v) ELSE store_data

\* C8: under no transform, under compression only and under encryption only,
\* reading back what write_store(b) persisted gives exactly b, for every
\* document text b: unwrap(wrap(b)) = b.
C8_TransformSymmetry ==
    ~(store.encryption_key.some /\ store.compressed)
        => \A b \in Texts : \A nonce \in NoncesFor(store) :
               /\ IsOk(wrap(store, b, nonce))
               /\ unwrap(store, wrap(store, b, nonce).v) = Ok(b)
               /\ IsOk(write_store(store, DirPresent, b, nonce).res)
               /\ ReadBack(store, write_store(store, DirPresent, b, nonce).fs) = Ok(b)

\* a compressing store without a key holds a document with an entry, whose
\* compressed bytes decode to the text that was written
C8_Witness ==
    /\ store.compressed /\ ~store.encryption_key.some
    /\ last.op = "set" /\ IsOk(last.res) /\ last.path = NestedPath(2)
    /\ last.data.json = JNum(42)
    /\ files[get_store_path(store)] =
           GzEncode(as_bytes(to_string(Nested(Segments(NestedPath(2)), JNum(42)))))
    /\ ReadBack(store, Fs) = Ok(to_string(Nested(Segments(NestedPath(2)), JNum(42))))

-----------------------------------------------------------------------------
(* C9 *)

\* the store with the compression flag given
WithFlag(st, c) == set_compressed(st, c)

\* C9: whenever a key is configured, what is written is the cipher's output on
\* the text itself, whatever the compression flag, and it is read back under
\* the same key with the flag on as with the flag off; so is the file at hand.
C9_EncryptionPrecedence ==
    store.encryption_key.some
        => /\ \A b \in Texts : \A nonce \in Nonces : \A c \in BOOLEAN :
                  /\ wrap(WithFlag(store, c), b, nonce)
                         = encrypt_data(b, store.encryption_key.v, nonce)
                  /\ \A d \in BOOLEAN :
                         unwrap(WithFlag(store, d), wrap(WithFlag(store, c), b, nonce).v)
                             = Ok(b)
           /\ get_store_as_parsed_json(WithFlag(store, TRUE), Fs)
                  = get_store_as_parsed_json(WithFlag(store, FALSE), Fs)

\* a document with entries is stored under a key, the flag has just been
\* switched off, and the document reads as it does with the flag on
C9_Witness ==
    /\ last.op = "set_compressed" /\ last.data.json = JBool(FALSE)
    /\ store.encryption_key.some /\ ~store.compressed
    /\ IsOk(Doc) /\ Doc.v # EmptyObj
    /\ Doc = get_store_as_parsed_json(WithFlag(store, TRUE), Fs)

-----------------------------------------------------------------------------
(* C10 *)

\* C10: set_encryption_key(s) with s of at most 32 bytes returns Ok and sets
\* the key to exactly 32 bytes, the bytes of s followed by zero bytes.
C10_KeyPadding ==
    (last.op = "set_encryption_key" /\ Len(last.path) <= 32)
        => (/\ last.res = Ok(Unit)
            /\ store.encryption_key.some
            /\ Len(store.encryption_key.v) = 32
            /\ \A i \in 1..32 :
                   store.encryption_key.v[i] =
                       IF i <= Len(last.path) THEN last.path[i] ELSE 0)

\* a key string of exactly 32 bytes has just been stored as it is
C10_Witness ==
    /\ last.op = "set_encryption_key" /\ Len(last.path) = 32
    /\ last.res = Ok(Unit)
    /\ store.encryption_key = Some(last.path)

-----------------------------------------------------------------------------
(* C11 *)

\* C11: set_encryption_key(s) with s longer than 32 bytes fails with
\* InvalidKeyLength and leaves the store as it was: no key stays no key, an
\* earlier key stays that key, and the document read before is read after.
C11_KeyRejection ==
    [][(last'.op = "set_encryption_key" /\ Len(last'.path) > 32)
           => (/\ last'.res = Err(ErrInvalidKeyLength)
               /\ ErrorText(last'.res.e) = "Invalid encryption key length"
               /\ store'.encryption_key = store.encryption_key
               /\ store' = store
               /\ FsNext = Fs
               /\ DocNext = Doc)]_vars

\* a key of 33 bytes or more has just been refused on a store that holds
\* entries encrypted under the earlier key, and they are still read
C11_Witness ==
    /\ last.op = "set_encryption_key" /\ Len(last.path) > 32
    /\ last.res = Err(ErrInvalidKeyLength)
    /\ store.encryption_key = Some([i \in 1..32 |-> IF i <= Len(TestKey) THEN TestKey[i] ELSE 0])
    /\ IsOk(Doc) /\ Doc.v # EmptyObj

-----------------------------------------------------------------------------
(* C12 *)

\* values a caller can assign to the public fields of Store (lib.rs:30-36)
FieldValues ==
    [project_name |-> {"my-app", "other"},
     config_name |-> {"config", "settings"},
     file_extension |-> {"json", "toml"},
     project_suffix |-> {"rs", "cfg"}]

\* the stores that differ from st in exactly one public field
Reconfigured(st) ==
    UNION {{[st EXCEPT ![f] = v] : v \in FieldValues[f]} : f \in DOMAIN FieldValues} \ {st}

\* C12: the storage file is root/"{project_name}-{project_suffix}"/
\* "{config_name}.{file_extension}", so that a store differing in any one of
\* these fields, the config_name alone included, addresses another file, and
\* a set through one store changes nothing a get through the other reads.
C12_PathConstruction ==
    [][(last'.op = "set" /\ IsOk(last'.res))
           => (/\ get_store_path(store') =
                      store'.path
                      \o <<store'.project_name \o "-" \o store'.project_suffix,
                           store'.config_name \o "." \o store'.file_extension>>
               /\ \A other \in Reconfigured(store') :
                      /\ get_store_path(other) # get_store_path(store')
                      /\ get(other, FsNext, last'.path) = get(other, Fs, last'.path))]_vars

\* what does hold of the code: the file is named after the project, and of the
\* stores differing in one field only the one differing in config_name shares it
C12_FileNamedAfterProject ==
    /\ get_store_path(store) =
           store.path
           \o <<store.project_name \o "-" \o store.project_suffix,
                store.project_name \o "." \o store.file_extension>>
    /\ \A other \in Reconfigured(store) :
           (get_store_path(other) = get_store_path(store))
               <=> (other.config_name # store.config_name)

-----------------------------------------------------------------------------
(* C13 *)

\* C13: whatever the backing file holds and whatever the configuration, get,
\* set and delete end by returning Ok or a typed Error; none of them panics.
C13_NoPanic ==
    last.op \in {"get", "set", "delete"} => (IsOk(last.res) \/ IsErr(last.res))

\* what does hold of the code: a call panics exactly when it reads, under a
\* key, an existing file shorter than the 12 bytes of a nonce
C13_PanicOnShortFile ==
    [][last'.op \in {"get", "set", "delete"}
           => (last'.res = Panic
                   <=> (/\ last'.op = "set" => last'.data.ok
                        /\ store.encryption_key.some
                        /\ ~FileAbsent
                        /\ Len(files[get_store_path(store)]) < 12))]_vars

-----------------------------------------------------------------------------
(* C14 *)

RECURSIVE Meets(_, _)
\* what the traversal of the keys segs meets in v: the value they lead to
\* ("found"), or the reason why they lead to none
Meets(v, segs) ==
    IF segs = <<>> THEN "found"
    ELSE CASE v.t = "obj" ->
                  IF Head(segs) \in DOMAIN v.m THEN Meets(v.m[Head(segs)], Tail(segs))
                  ELSE "missing key"
           [] v.t = "arr" ->
                  IF ~ParseIndex(Head(segs)).some THEN "key into array"
                  ELSE IF ParseIndex(Head(segs)).v >= Len(v.a) THEN "index past length"
                  ELSE Meets(v.a[ParseIndex(Head(segs)).v + 1], Tail(segs))
           [] v.t = "null" -> "null"
           [] OTHER -> "scalar"

\* paths asked of a store with entries: those of the calls, below a scalar,
\* past and within the array at "c", below an element of it, and a key unused
MissingPaths ==
    Paths \cup {NestedPath(MaxDepth + 1), <<"c", ".", "5">>, <<"c", ".", "0">>,
                <<"c", ".", "0", ".", "x">>, <<"z">>, <<"z", ".", "y">>}

-----------------------------------------------------------------------------
(* C15 *)

\* q names an entry below p: p, a dot, and more
IsBelow(q, p) == Len(q) > Len(p) + 1 /\ SubSeq(q, 1, Len(p) + 1) = p \o <<".">>

\* get reads a value
ReadsSome(r) == IsOk(r) /\ r.v.some

\* a serializable value is being set at p, where the document holds nothing,
\* a scalar or a subtree
SetsOver(p) ==
    /\ last'.op = "set" /\ last'.path = p /\ last'.data.ok
    /\ IsOk(Doc)
    /\ Meets(Doc.v, Segments(p)) \in {"found", "missing key"}

\* the call succeeded, the document holds the value at p, and nothing is read
\* below p unless the value is a container
Replaced(p) ==
    /\ IsOk(last'.res)
    /\ IsOk(DocNext)
    /\ StoredAt(DocNext.v, Segments(p)) = Some(last'.data.json)
    /\ last'.data.json.t \notin {"obj", "arr"}
           => \A q \in MissingPaths :
                  IsBelow(q, p) => ~ReadsSome(get(store', FsNext, q))

\* C15 as stated: set(p, v2) succeeds and replaces whatever is at p, nothing, a
\* scalar or a subtree; afterwards get(p) returns Some(v2) and no value of the
\* replaced subtree is read below p.
C15_LastWriteWinsAnyValue ==
    [][\A p \in Paths :
           SetsOver(p)
               => (/\ Replaced(p)
                   /\ get(store', FsNext, p) = Ok(Some(last'.data.json)))]_vars

\* C15, amended: set(p, v2) succeeds and replaces whatever is at p, nothing, a
\* scalar or a subtree; afterwards the document holds v2 at p, get(p) returns
\* Some(v2), or None when v2 is null, and no value of the replaced subtree is
\* read below p.
C15_LastWriteWins ==
    [][\A p \in Paths :
           SetsOver(p)
               => (/\ Replaced(p)
                   /\ get(store', FsNext, p) =
                          IF last'.data.json = JNull THEN Ok(None)
                          ELSE Ok(Some(last'.data.json)))]_vars

\* set("a", "h") has just succeeded, get("a") reads "h" and get("a.b") reads
\* no value
C15_Witness ==
    /\ last.op = "set" /\ last.path = NestedPath(1) /\ IsOk(last.res)
    /\ last.data.json = JStr(<<"h">>)
    /\ get(store, Fs, NestedPath(1)) = Ok(Some(JStr(<<"h">>)))
    /\ ~ReadsSome(get(store, Fs, NestedPath(2)))
    /\ store.compressed

-----------------------------------------------------------------------------
(* C16 *)

\* q is neither p, nor a prefix of p, nor an extension of p
Unrelated(q, p) == q # p /\ ~IsBelow(q, p) /\ ~IsBelow(p, q)

\* the paths whose entries are compared before and after a set
FramePaths == MissingPaths \cup {<<"a", ".", "x">>, <<"c", ".", "1">>}

RECURSIVE Put(_, _, _)
\* the object v with x under the keys segs, an object being made where a key
\* on the way is missing or holds null, and every other entry kept
Put(v, segs, x) ==
    IF segs = <<>> THEN x
    ELSE IF v.t # "obj" THEN Nested(segs, x)
    ELSE JObj([k \in (DOMAIN v.m) \cup {Head(segs)} |->
                  IF k # Head(segs) THEN v.m[k]
                  ELSE IF k \in DOMAIN v.m THEN Put(v.m[k], Tail(segs), x)
                  ELSE Nested(Tail(segs), x)])

-----------------------------------------------------------------------------
(* C17 *)

\* delete(p) is being called on a store where get(p) reads nothing
DeletesAbsent(p) ==
    /\ last'.op = "delete" /\ last'.path = p
    /\ IsOk(Doc)
    /\ get(store, Fs, p) = Ok(None)

-----------------------------------------------------------------------------
(* C18 *)

\* C18: when the value cannot be serialized, set fails with the serialization
\* error and takes no filesystem step: on an absent store neither the
\* directory nor the file is created, on an existing one the file is not
\* rewritten, whatever it holds and whatever the configuration.
C18_SerializationFirst ==
    [][(last'.op = "set" /\ ~last'.data.ok)
           => (/\ last'.res = Err(ErrSerde)
               /\ dirs' = dirs
               /\ files' = files)]_vars

\* set has just refused an unserializable value on an encrypting store that
\* has neither directory nor file
C18_Witness ==
    /\ last.op = "set" /\ ~last.data.ok /\ last.res = Err(ErrSerde)
    /\ store.encryption_key.some
    /\ FileAbsent /\ get_store_dir_path(store) \notin dirs

-----------------------------------------------------------------------------
(* C19 *)

\* the calls of set tried after the store is gone: the deepest path and the
\* sibling path
RestartInputs ==
    {<<NestedPath(MaxDepth), Data(JNum(42))>>, <<SiblingPath, Data(JStr(<<"x", "y">>))>>}

\* C19: after delete_store returns Ok the directory of the store and all below
\* it are gone, store_exists() and store_dir_exists() are false, get and delete
\* fail with NotFound, and a set made next succeeds and leaves the document {}
\* with only its own value.
C19_DeleteStore ==
    [][(last'.op = "delete_store" /\ IsOk(last'.res))
           => (/\ ~store_exists(store', FsNext) /\ ~store_dir_exists(store', FsNext)
               /\ \A x \in dirs' \cup DOMAIN files' :
                      ~IsUnder(x, get_store_dir_path(store'))
               /\ \A p \in Paths :
                      /\ get(store', FsNext, p) = Err(ErrNotFound)
                      /\ \A nonce \in NoncesFor(store') :
                             delete(store', FsNext, p, nonce) = FsRes(Err(ErrNotFound), FsNext)
               /\ \A input \in RestartInputs :
                      \A nonce \in NoncesFor(store') :
                          LET r == set(store', FsNext, input[1], input[2], nonce, nonce)
                          IN  /\ IsOk(r.res)
                              /\ get_store_as_parsed_json(store', r.fs) =
                                     Ok(Nested(Segments(input[1]), input[2].json)))]_vars

\* delete_store has just removed the directory of a compressing store
C19_Witness ==
    /\ last.op = "delete_store" /\ IsOk(last.res)
    /\ store.compressed
    /\ ~store_exists(store, Fs) /\ ~store_dir_exists(store, Fs)
    /\ get(store, Fs, NestedPath(1)) = Err(ErrNotFound)

-----------------------------------------------------------------------------
(* C20 *)

\* the store as another caller may have configured it: with or without the
\* key "test_key", compressing or not
Readers(st) ==
    {[st EXCEPT !.encryption_key = k, !.compressed = c] :
         k \in {None, set_encryption_key(st, TestKey).st.encryption_key},
         c \in BOOLEAN}

\* the file at hand was written by the last call, under the configuration of store
JustWritten == last.op \in {"set", "delete", "init_store"} /\ IsOk(last.res)

\* the results of get, set and delete through the store rd
ReadResults(rd) ==
    {get(rd, Fs, p) : p \in Paths}
    \cup {set(rd, Fs, input[1], input[2], nonce, nonce).res :
              input \in RestartInputs, nonce \in NoncesFor(rd)}
    \cup {delete(rd, Fs, p, nonce).res : p \in {SiblingPath}, nonce \in NoncesFor(rd)}

\* C20 as stated: a document written under one configuration and read by get,
\* set or delete under one that differs in the presence of a key or in the
\* compression flag gives an error result, never a successful value.
C20_MismatchIsError ==
    JustWritten
        => \A rd \in Readers(store) :
               (\/ rd.encryption_key.some # store.encryption_key.some
                \/ rd.compressed # store.compressed)
                   => \A r \in ReadResults(rd) : IsErr(r)

\* C20, amended: a document written under one configuration and read by get,
\* set or delete under one that differs in the presence of a key, or, neither
\* having a key, in the compression flag, never gives a successful value and
\* leaves the file as it is: the call returns an error, except that under a
\* key it panics on a file shorter than 12 bytes.  With the same key on both
\* sides a different compression flag is no mismatch: the read succeeds.
C20_Mismatch ==
    JustWritten
        => \A rd \in Readers(store) :
               /\ (\/ rd.encryption_key.some # store.encryption_key.some
                   \/ (/\ ~rd.encryption_key.some /\ ~store.encryption_key.some
                       /\ rd.compressed # store.compressed))
                      => (/\ \A r \in ReadResults(rd) :
                                 IF rd.encryption_key.some
                                        /\ Len(files[get_store_path(store)]) < 12
                                 THEN r = Panic
                                 ELSE IsErr(r) /\ r.e \in {ErrIo, ErrFromUTF8, ErrDecryption}
                          /\ \A p \in Paths : \A nonce \in NoncesFor(rd) :
                                 delete(rd, Fs, p, nonce).fs = Fs)
               /\ (rd.encryption_key = store.encryption_key /\ store.encryption_key.some)
                      => get_store_as_parsed_json(rd, Fs) = Doc /\ IsOk(Doc)

\* a document was written as plain text, the compression flag was switched
\* on, and get has just failed on the bytes that are no gzip stream
C20_Witness ==
    /\ last.op = "get" /\ last.res = Err(ErrIo)
    /\ store.compressed /\ ~store.encryption_key.some
    /\ ~FileAbsent
    /\ IsOk(get_store_as_parsed_json(WithFlag(store, FALSE), Fs))

-----------------------------------------------------------------------------
(* C21 *)

\* the key set_encryption_key makes of "test_key", and the one of another string
PaddedTestKey == set_encryption_key(new("my-app"), TestKey).st.encryption_key.v
OtherKey == set_encryption_key(new("my-app"), KeyString(9)).st.encryption_key.v

\* a nonce another writer drew
ForeignNonce == [i \in 1..NonceLen |-> [r |-> 7]]

\* bytes that are no UTF-8 text
BinaryBytes == <<[r |-> 255], [r |-> 254], [u |-> "{"]>>

\* what another writer may leave in the file: a text and bytes that are none,
\* both sealed under the key; a text sealed under another key; a sealed text
\* with one byte of the ciphertext changed; and bytes that were never sealed
SealedText == ForeignNonce \o Seal(PaddedTestKey, ForeignNonce, as_bytes(to_string(EmptyObj)))
SealedBinary == ForeignNonce \o Seal(PaddedTestKey, ForeignNonce, BinaryBytes)
SealedOtherKey == ForeignNonce \o Seal(OtherKey, ForeignNonce, as_bytes(to_string(EmptyObj)))
Tampered == [SealedText EXCEPT ![NonceLen + 1] = [e |-> [u |-> "["], i |-> 1]]
NeverSealed == [i \in 1..(NonceLen + TagLen + 2) |-> [r |-> i]]

Payloads == {SealedText, SealedBinary, SealedOtherKey, Tampered, NeverSealed}

\* another program writes the file of the store
ForeignWrite(bytes) ==
    LET r == fs_write(Fs, get_store_path(store), bytes)
    IN  /\ IsOk(r.res)
        /\ dirs' = r.fs.dirs
        /\ files' = r.fs.files
        /\ last' = Call("foreign_write", <<>>, NoData, r.res)
        /\ UNCHANGED <<store, threads>>

\* The reads of a file that others write
NextPayload ==
    \/ \E bytes \in Payloads : ForeignWrite(bytes)
    \/ \E path \in Paths : Get(path)
    \/ \E path \in Paths : \E nonce \in NoncesFor(store) : Delete(path, nonce)
    \/ \E key \in KeyStrings : SetEncryptionKey(key)
    \/ \E compressed \in BOOLEAN : SetCompressed(compressed)

SpecPayload == Init /\ [][NextPayload]_vars

\* get or delete has just read the file at hand under the key "test_key"
ReadUnderKey ==
    /\ last.op \in {"get", "delete"}
    /\ store.encryption_key = Some(PaddedTestKey)
    /\ ~FileAbsent

\* the file at hand
FileBytes == files[get_store_path(store)]

\* C21 as stated: with a key configured, a payload whose authentication fails
\* makes the read fail with the decryption error, and one that authenticates
\* but whose recovered bytes are no valid UTF-8 makes it fail with the UTF-8
\* error, not with the decryption error.
C21_ErrorKindsDistinct ==
    ReadUnderKey
        => /\ FileBytes \in {SealedOtherKey, Tampered, NeverSealed}
                  => last.res = Err(ErrDecryption)
           /\ FileBytes = SealedBinary => last.res = Err(ErrFromUTF8)

\* C21, amended: with a key configured, a payload whose authentication fails
\* makes the read fail with the decryption error, and so does one that
\* authenticates but whose recovered bytes are no valid UTF-8; a payload that
\* authenticates and holds a text is read.
C21_ErrorKinds ==
    ReadUnderKey
        => /\ FileBytes \in {SealedOtherKey, Tampered, NeverSealed}
                  => last.res = Err(ErrDecryption)
           /\ FileBytes = SealedBinary
                  => (/\ last.res = Err(ErrDecryption)
                      /\ ErrorText(last.res.e) = "Decryption error"
                      /\ Open(PaddedTestKey, ForeignNonce,
                              SubSeq(FileBytes, NonceLen + 1, Len(FileBytes)))
                             = Some(BinaryBytes))
           /\ (FileBytes = SealedText /\ last.op = "get") => last.res = Ok(None)

\* get has just failed with the decryption error on bytes that authenticate
\* under the key and are no UTF-8 text
C21_Witness ==
    /\ ReadUnderKey /\ last.op = "get"
    /\ FileBytes = SealedBinary
    /\ last.res = Err(ErrDecryption)

-----------------------------------------------------------------------------
(* C22 *)

\* a second instance, made by the constructor and the setters with the
\* configuration of st
SecondInstance(st) ==
    LET made == new(st.project_name)
        keyed == IF st.encryption_key = None THEN made
                 ELSE set_encryption_key(made, TestKey).st
    IN  set_compressed(keyed, st.compressed)

\* C22: for two instances with the same configuration used one after the other,
\* a successful set(p, v), delete(p) or delete_store through one is observed by
\* the very next get(p) through the other: it reads the value set (a null as
\* absent), nothing after the delete, and NotFound after delete_store.
C22_NoCache ==
    [][IsOk(last'.res) =>
           LET other == SecondInstance(store')
           IN  /\ last'.op = "set"
                      => get(other, FsNext, last'.path) =
                             Ok(null_to_none(Some(last'.data.json)))
               /\ last'.op = "delete"
                      => get(other, FsNext, last'.path) = Ok(None)
               /\ last'.op = "delete_store"
                      => \A p \in Paths : get(other, FsNext, p) = Err(ErrNotFound)
               /\ last'.op \in {"set", "delete", "delete_store"}
                      => (/\ other.encryption_key = store'.encryption_key
                          /\ other.compressed = store'.compressed
                          /\ get_store_path(other) = get_store_path(store'))]_vars

\* 42 was set at "a.b" under a key, and the second instance reads it
C22_Witness ==
    /\ last.op = "set" /\ IsOk(last.res)
    /\ last.path = NestedPath(2)
    /\ store.encryption_key = Some(PaddedTestKey)
    /\ get(SecondInstance(store), Fs, NestedPath(2)) = Ok(Some(JNum(42)))

-----------------------------------------------------------------------------
(* C23 *)

\* The calls of set on two threads, one system call at a time.  set takes
\* &self (lib.rs:150) and holds no lock, so the steps of two calls interleave
\* freely; the setters take &mut self (lib.rs:328, 344), so they run only
\* while no call is in flight.

\* the path and data the threads give to set
RaceInputs == {<<NestedPath(1), Data(JNum(42))>>, <<SiblingPath, Data(JStr(<<"x", "y">>))>>}

Goto(t, pc) == threads' = [threads EXCEPT ![t].pc = pc]

\* the call of thread t returns res
Return(t, res) ==
    /\ threads' = [threads EXCEPT ![t].pc = "done", ![t].res = res]
    /\ last' = Call("set", threads[t].path, threads[t].data, res)

\* write_store, but modifying the document that is in the file as it is opened
write_text_Reread(st, fs, th) ==
    LET now == get_store_as_parsed_json(st, fs)
    IN  IF th.pc = "write_open" /\ IsOk(now)
        THEN to_string(dot_set(now.v, th.path, th.json_data).v)
        ELSE th.text

\* the data set and init_store give to write_store
write_text(st, fs, th) == th.text

\* lib.rs:154
SetBegin(t, path, data) ==
    LET json_data == to_value(data)
        called == [threads EXCEPT ![t].path = path, ![t].data = data]
    IN  /\ threads[t].pc = "idle"
        /\ IF IsOk(json_data)
           THEN /\ threads' = [called EXCEPT ![t].pc = "exists",
                                             ![t].json_data = json_data.v]
                /\ UNCHANGED last
           ELSE /\ threads' = [called EXCEPT ![t].pc = "done", ![t].res = json_data]
                /\ last' = Call("set", path, data, json_data)
        /\ UNCHANGED <<store, dirs, files>>

\* lib.rs:155
SetCheckExists(t) ==
    /\ threads[t].pc = "exists"
    /\ Goto(t, IF store_exists(store, Fs) THEN "read" ELSE "init_dir")
    /\ UNCHANGED <<store, dirs, files, last>>

\* lib.rs:237
InitCheckDir(t) ==
    /\ threads[t].pc = "init_dir"
    /\ Goto(t, IF store_dir_exists(store, Fs) THEN "init_file" ELSE "mkdir")
    /\ UNCHANGED <<store, dirs, files, last>>

\* lib.rs:238-240
InitMakeDir(t) ==
    LET r == make_store_path(store, Fs)
    IN  /\ threads[t].pc = "mkdir"
        /\ IF IsOk(r.res)
           THEN /\ Goto(t, "init_file")
                /\ dirs' = r.fs.dirs
                /\ files' = r.fs.files
                /\ UNCHANGED last
           ELSE /\ Return(t, r.res)
                /\ UNCHANGED <<dirs, files>>
        /\ UNCHANGED store

\* lib.rs:242
InitCheckFile(t) ==
    /\ threads[t].pc = "init_file"
    /\ threads' = [threads EXCEPT
                       ![t].pc = IF store_exists(store, Fs) THEN "init_open" ELSE "create",
                       ![t].text = to_string(EmptyObj)]
    /\ UNCHANGED <<store, dirs, files, last>>

\* lib.rs:243
InitCreate(t) ==
    LET r == fs_write(Fs, get_store_path(store), <<>>)
    IN  /\ threads[t].pc = "create"
        /\ IF IsOk(r.res)
           THEN /\ Goto(t, "init_open")
                /\ dirs' = r.fs.dirs
                /\ files' = r.fs.files
                /\ UNCHANGED last
           ELSE /\ Return(t, r.res)
                /\ UNCHANGED <<dirs, files>>
        /\ UNCHANGED store

\* write_store up to the opening of the file: fs::write opens the file, which
\* empties it, and then writes the bytes (lib.rs:272-288)
WriteOpen(t, nonce) ==
    LET w == wrap(store, write_text(store, Fs, threads[t]), nonce)
        r == fs_write(Fs, get_store_path(store), <<>>)
    IN  /\ threads[t].pc \in {"init_open", "write_open"}
        /\ IF ~IsOk(w)
           THEN Return(t, w) /\ UNCHANGED <<dirs, files>>
           ELSE IF ~IsOk(r.res)
           THEN Return(t, r.res) /\ UNCHANGED <<dirs, files>>
           ELSE /\ threads' = [threads EXCEPT
                                   ![t].pc = IF threads[t].pc = "init_open"
                                             THEN "init_write" ELSE "write",
                                   ![t].bytes = w.v]
                /\ dirs' = r.fs.dirs
                /\ files' = r.fs.files
                /\ UNCHANGED last
        /\ UNCHANGED store

\* the rest of fs::write; init_store returns into set (lib.rs:156) and the
\* write of set is its result (lib.rs:160)
WriteAll(t) ==
    LET r == fs_write(Fs, get_store_path(store), threads[t].bytes)
    IN  /\ threads[t].pc \in {"init_write", "write"}
        /\ IF IsOk(r.res) /\ threads[t].pc = "init_write"
           THEN Goto(t, "read") /\ UNCHANGED last
           ELSE Return(t, r.res)
        /\ dirs' = r.fs.dirs
        /\ files' = r.fs.files
        /\ UNCHANGED store

\* lib.rs:158-159
SetRead(t) ==
    LET parsed_json == get_store_as_parsed_json(store, Fs)
        changed == dot_set(parsed_json.v, threads[t].path, threads[t].json_data)
    IN  /\ threads[t].pc = "read"
        /\ IF ~IsOk(parsed_json) THEN Return(t, parsed_json)
           ELSE IF ~IsOk(changed.res) THEN Return(t, changed.res)
           ELSE /\ threads' = [threads EXCEPT ![t].pc = "write_open",
                                              ![t].parsed_json = parsed_json.v,
                                              ![t].text = to_string(changed.v)]
                /\ UNCHANGED last
        /\ UNCHANGED <<store, dirs, files>>

NoCallInFlight == \A t \in Threads : threads[t].pc = "idle"

NextRace ==
    \/ \E t \in Threads : \E input \in RaceInputs : SetBegin(t, input[1], input[2])
    \/ \E t \in Threads : SetCheckExists(t)
    \/ \E t \in Threads : InitCheckDir(t)
    \/ \E t \in Threads : InitMakeDir(t)
    \/ \E t \in Threads : InitCheckFile(t)
    \/ \E t \in Threads : InitCreate(t)
    \/ \E t \in Threads : \E nonce \in NoncesFor(store) : WriteOpen(t, nonce)
    \/ \E t \in Threads : WriteAll(t)
    \/ \E t \in Threads : SetRead(t)
    \/ NoCallInFlight /\ SetEncryptionKey(TestKey)
    \/ NoCallInFlight /\ \E compressed \in BOOLEAN : SetCompressed(compressed)

SpecRace == Init /\ [][NextRace]_vars

\* both calls have returned Ok, and they were given different top-level keys
BothReturnedOk ==
    /\ \A t \in Threads : threads[t].pc = "done" /\ threads[t].res = Ok(Unit)
    /\ threads[1].path # threads[2].path

\* C23: two concurrent calls of set on different top-level keys can both
\* return Ok and leave only one of the keys.  Whenever both have returned Ok,
\* the file is the document one of them read with its own key set in it: that
\* call's key is there, and the other's key is there only if the call read it,
\* so the other's update is lost whenever the call read before it was written.
C23_LostUpdate ==
    BothReturnedOk
        => \E t \in Threads : \E u \in Threads \ {t} :
               /\ Doc = Ok(dot_set(threads[t].parsed_json, threads[t].path,
                                   threads[t].json_data).v)
               /\ get(store, Fs, threads[t].path) = Ok(Some(threads[t].json_data))
               /\ get(store, Fs, threads[u].path) =
                      dot_get(threads[t].parsed_json, threads[u].path)

\* both calls returned Ok, and the document holds "c" and not "a"
C23_Witness ==
    /\ BothReturnedOk
    /\ get(store, Fs, SiblingPath) = Ok(Some(JStr(<<"x", "y">>)))
    /\ get(store, Fs, NestedPath(1)) = Ok(None)
    /\ Doc = Ok(Nested(<<SiblingPath>>, JStr(<<"x", "y">>)))

-----------------------------------------------------------------------------
(* C24 *)

\* C24: get is read-only: in every state, for every path and outcome, get
\* leaves the directories, the files and their bytes as they were, and so do
\* store_exists, store_dir_exists, set_encryption_key and set_compressed.
C24_ReadOnly ==
    [][last'.op \in {"get", "set_encryption_key", "set_compressed"}
           => (/\ dirs' = dirs
               /\ files' = files
               /\ store_exists(store', FsNext) = store_exists(store', Fs)
               /\ store_dir_exists(store', FsNext) = store_dir_exists(store', Fs)
               /\ last'.op = "get"
                      => (/\ store' = store
                          /\ last'.res = get(store, Fs, last'.path)
                          /\ get_fs(store, Fs, last'.path).fs = Fs))]_vars

\* get has just answered NotFound, and neither the directory nor the file is there
C24_Witness ==
    /\ last.op = "get" /\ last.res = Err(ErrNotFound)
    /\ get_store_dir_path(store) \notin dirs
    /\ FileAbsent

-----------------------------------------------------------------------------
(* C25 *)

\* the configurations a caller may settle on before the first call
Configurations ==
    {set_compressed(keyed, compressed) :
         keyed \in {new("my-app"), set_encryption_key(new("my-app"), TestKey).st},
         compressed \in BOOLEAN}

\* one caller under a configuration that stays, from an absent store
InitFixed ==
    /\ store \in Configurations
    /\ dirs \in {{RootPath}, {RootPath, get_store_dir_path(new("my-app"))}}
    /\ files = [q \in {} |-> <<>>]
    /\ last = Call("new", <<>>, NoData, Ok(Unit))
    /\ threads = [t \in Threads |-> IdleThread]

NextFixed ==
    \/ \E path \in Paths : Get(path)
    \/ \E input \in SetInputs :
           \E nonce1 \in InitNoncesFor(store, Fs), nonce2 \in NoncesFor(store) :
               Set(input[1], input[2], nonce1, nonce2)
    \/ \E path \in Paths : \E nonce \in NoncesFor(store) : Delete(path, nonce)
    \/ \E nonce \in NoncesFor(store) : InitStore(nonce)

SpecFixed == InitFixed /\ [][NextFixed]_vars

\* the errors of unwrapping and parsing, and the panic of decrypt_data
DecodeFailures ==
    {Err(ErrDecryption), Err(ErrIo), Err(ErrFromUTF8), Err(ErrSerde), Panic}

\* C25: under a configuration that is not changed, with one caller, after any
\* sequence of set, delete and init_store calls, successful or failed, from an
\* absent store, the file, whenever it exists, unwraps and parses to a JSON
\* document under that configuration, so that get returns no decryption,
\* decompression, UTF-8 or JSON-parse error.
C25_DocumentValid ==
    /\ store \in Configurations
    /\ ~FileAbsent
           => (/\ IsOk(unwrap(store, FileBytes))
               /\ IsOk(parse_json(unwrap(store, FileBytes).v))
               /\ IsOk(Doc))
    /\ \A p \in Paths : get(store, Fs, p) \notin DecodeFailures
    /\ last.op \in {"get", "delete"} => last.res \notin DecodeFailures

\* a set has just failed on a compressed store that holds a value, and the
\* file still reads as that document
C25_Witness ==
    /\ last.op = "set" /\ last.res = Err(ErrBadPathElement)
    /\ store.compressed /\ ~store.encryption_key.some
    /\ ~FileAbsent
    /\ Doc = Ok(Nested(<<NestedPath(1)>>, JNum(42)))

====
